---- MODULE Spec2Model ----
(***************************************************************************)
(* Model of the recommendation core of ShowSuggesterAI.py:                 *)
(*   automatic_translator (the Title Reconciler), ai_recommendation (the   *)
(*   Similarity Ranker), cosine_similarity on float64 arrays, and the      *)
(*   command-line program: its loop of prompts before the ranking and the  *)
(*   part that consumes the ranker's result.                               *)
(*                                                                         *)
(* A show title is a Python string.  The reconciler compares titles        *)
(* character by character, so there a title is a sequence of characters.   *)
(* The ranker only tests titles for equality and uses them as dictionary   *)
(* keys, so there a title is an opaque key.                                *)
(***************************************************************************)
EXTENDS Integers, Sequences, FiniteSets

VARIABLES
    \* ---- automatic_translator(shows_list, df) ----
    tr_shows,            \* argument shows_list
    tr_df,               \* argument df
    tr_pc,               \* "call", "loop", "done"
    tr_i,                \* position of the for loop in shows_list
    correct_shows_list,  \* the local list that is built
    tr_result,           \* what the call produced: a return value or an exception
    \* ---- ai_recommendation(shows_list, df) and the program after it ----
    shows_list,          \* argument shows_list: the reconciled favorites
    df,                  \* the caller's catalog: the titles of its rows, in order
    df_columns,          \* the caller's catalog: the names of its columns
    embed_dict_info,     \* the embedding table that load_embeddings reads
    pc,                  \* "call", "load", "centroid", "rank", "ai", "returned", "exit"
    work,                \* the function's own df: the copy it filters and extends
    avg_embed,           \* the centroid
    recommendation_shows,
    generate_shows,
    result,              \* what ai_recommendation produced
    load_calls,          \* calls of load_embeddings so far
    ai_calls,            \* calls of create_ai_tv so far
    printed,             \* the recommendation lines the program printed
    enrichment,          \* "none", "displayed", "image_error", "skipped"
    \* ---- cosine_similarity(a, b) ----
    cs_a,                \* argument a
    cs_b,                \* argument b
    cs_pc,               \* "call", "check", "done"
    cs_denom,            \* the local denom
    cs_result,           \* what the call produced
    \* ---- the loop of the command-line program ----
    cli_pc,              \* "prompt", "reconcile", "confirmed", "ranking", "crashed"
    tv_shows,            \* the titles of this round's input line
    correct_shows,       \* what automatic_translator returned this round
    answer,              \* what the user typed at the confirmation
    correction,          \* the answer after .strip().lower()
    rounds,              \* rounds of the loop started so far
    rank_calls           \* calls of ai_recommendation made by the program

tr_vars == <<tr_shows, tr_df, tr_pc, tr_i, correct_shows_list, tr_result>>

rk_vars == <<shows_list, df, df_columns, embed_dict_info, pc, work, avg_embed, recommendation_shows,
             generate_shows, result, load_calls, ai_calls, printed, enrichment>>

cs_vars == <<cs_a, cs_b, cs_pc, cs_denom, cs_result>>

cli_vars == <<cli_pc, tv_shows, correct_shows, answer, correction, rounds, rank_calls>>

vars == <<tr_vars, rk_vars, cs_vars, cli_vars>>

\* ------------------------------------------------------------------ bounds
MaxShows == 2            \* longest list of raw titles passed to the reconciler
MaxRows == 3             \* most rows of a catalog passed to the reconciler
MaxRankRows == 6         \* most rows of a catalog passed to the ranker
MaxRounds == 3           \* most rounds of the command-line loop that are followed

\* ------------------------------------------------------------------ helpers
Max(a, b) == IF a >= b THEN a ELSE b

Min(a, b) == IF a <= b THEN a ELSE b

SeqsUpTo(S, n) == UNION {[1..k -> S] : k \in 0..n}

\* ------------------------------------------------------------ Python values
NoneVal == [kind |-> "None", val |-> <<>>]

PyStr(chars) == [kind |-> "str", val |-> chars]

PyList(items) == [kind |-> "list", val |-> items]

DataFrame(titles) == [kind |-> "DataFrame", val |-> titles]

\* Python truthiness of None, a str and a list: `not shows_list`.
Truthy(v) == v.kind # "None" /\ Len(v.val) > 0

\* isinstance(df, pd.DataFrame)
IsDataFrame(v) == v.kind = "DataFrame"

\* What `for show in shows_list` yields: the items of a list, the one-character
\* strings of a str.
Iterate(v) == IF v.kind = "str" THEN [i \in 1..Len(v.val) |-> <<v.val[i]>>] ELSE v.val

Returned(v) == [kind |-> "return", val |-> v]

Raised(e) == [kind |-> "raise", val |-> e]

NoResult == [kind |-> "none", val |-> <<>>]

\* ------------------------------------------------------------- fuzz.ratio
\* thefuzz.fuzz.ratio(s1, s2): round(100 * (1 - indel(s1, s2) / (|s1| + |s2|))),
\* where indel(s1, s2) = |s1| + |s2| - 2 * lcs(s1, s2); 100 for two empty strings.
RECURSIVE LCSLen(_, _)
LCSLen(s, t) ==
    IF s = <<>> \/ t = <<>> THEN 0
    ELSE IF Head(s) = Head(t) THEN 1 + LCSLen(Tail(s), Tail(t))
    ELSE Max(LCSLen(Tail(s), t), LCSLen(s, Tail(t)))

\* Python's round(): to the nearest integer, a half to the even neighbour.
RoundHalfEven(num, den) ==
    LET q == num \div den
        r == num % den
    IN  IF 2 * r < den THEN q
        ELSE IF 2 * r > den THEN q + 1
        ELSE IF q % 2 = 0 THEN q ELSE q + 1

Ratio(s1, s2) ==
    LET total == Len(s1) + Len(s2)
    IN  IF total = 0 THEN 100
        ELSE RoundHalfEven(100 * 2 * LCSLen(s1, s2), total)

\* df['Title'].apply(lambda title: fuzz.ratio(show, title))
Ratios(show, titles) == [k \in 1..Len(titles) |-> Ratio(show, titles[k])]

SeqMax(s) == CHOOSE m \in {s[k] : k \in 1..Len(s)} : \A k \in 1..Len(s) : s[k] <= m

\* Fault variant of IdxMax: idxmin() in place of idxmax().
IdxMin(ratios) ==
    CHOOSE k \in 1..Len(ratios) :
        /\ \A j \in 1..Len(ratios) : ratios[k] <= ratios[j]
        /\ \A j \in 1..(k - 1) : ratios[j] > ratios[k]

\* Fault variant of IdxMax: the last occurrence of the maximum.
IdxMaxLast(ratios) ==
    CHOOSE k \in 1..Len(ratios) :
        /\ ratios[k] = SeqMax(ratios)
        /\ \A j \in (k + 1)..Len(ratios) : ratios[j] < ratios[k]

\* Series.idxmax(): the label of the first occurrence of the maximum.  The
\* catalog carries the default RangeIndex, so the label is the row's position.
IdxMax(ratios) ==
    CHOOSE k \in 1..Len(ratios) :
        /\ ratios[k] = SeqMax(ratios)
        /\ \A j \in 1..(k - 1) : ratios[j] < ratios[k]

\* ------------------------------------------------------------ vector math
\* An embedding is a vector of numbers.  Values are kept exact: a vector is a
\* tuple of integer numerators over one common positive denominator.
Vec(v) == [num |-> v, den |-> 1]

RECURSIVE DotTo(_, _, _)
DotTo(a, b, k) == IF k = 0 THEN 0 ELSE a[k] * b[k] + DotTo(a, b, k - 1)

\* np.dot of two integer tuples.
Dot(a, b) == DotTo(a, b, Len(a))

RECURSIVE GCD(_, _)
GCD(a, b) == IF b = 0 THEN a ELSE GCD(b, a % b)

\* The similarity scores.  The cosine c of two vectors is carried by the exact
\* fraction sign(c) * c^2, in lowest terms <<p, q>> with q > 0: a strictly
\* increasing image of c, so scores compare, tie and sort as the exact cosines
\* do.  The rounding of float64 arithmetic is not modelled.
ZeroScore == <<0, 1>>

ScoreLess(s, t) == s[1] * t[2] < t[1] * s[2]

ScoreLeq(s, t) == s[1] * t[2] <= t[1] * s[2]

\* Lines 42-59: dot(a, b) / (norm(a) * norm(b)), and 0.0 when that product of
\* norms is 0.  The common denominators of a and b cancel in the quotient.
cosine_similarity(a, b) ==
    LET d == Dot(a.num, b.num)
        n == Dot(a.num, a.num) * Dot(b.num, b.num)
        g == GCD(d * d, n)
    IN  IF n = 0 THEN ZeroScore
        ELSE <<(IF d < 0 THEN -1 ELSE 1) * ((d * d) \div g), n \div g>>

\* ------------------------------------------- cosine_similarity on float64
\* np.asarray(..., dtype=float) makes the arguments arrays of float64.  A float64
\* is a number or one of inf, -inf, nan, and a product or sum too large for
\* float64 is inf.  The values followed here:
\*   Fin(n)   the integer n, small enough that no product of two overflows;
\*   Big(m)   m * 1e200, m # 0: finite, and the product of two of them is too
\*            large for float64 (the largest float64 is about 1.8e308);
\*   Inf(s)   inf (s = 1) or -inf (s = -1);
\*   NaN      nan.
\* Rounding and underflow are not modelled.
Fin(n) == [k |-> "fin", v |-> n]

Big(m) == [k |-> "big", v |-> m]

Inf(s) == [k |-> "inf", v |-> s]

NaN == [k |-> "nan", v |-> 0]

Sign(n) == IF n < 0 THEN -1 ELSE IF n > 0 THEN 1 ELSE 0

\* IEEE 754 product: nan spreads, inf * 0 is nan, Big * Big overflows to inf.
FMul(x, y) ==
    IF x.k = "nan" \/ y.k = "nan" THEN NaN
    ELSE IF x.k = "inf" \/ y.k = "inf"
         THEN IF x.v = 0 \/ y.v = 0 THEN NaN ELSE Inf(Sign(x.v) * Sign(y.v))
    ELSE IF x.k = "big" /\ y.k = "big" THEN Inf(Sign(x.v) * Sign(y.v))
    ELSE IF x.v * y.v = 0 THEN Fin(0)
    ELSE IF x.k = "big" \/ y.k = "big" THEN Big(x.v * y.v)
    ELSE Fin(x.v * y.v)

\* IEEE 754 sum: nan spreads, inf + -inf is nan, a small term added to a
\* multiple of 1e200 is absorbed.
FAdd(x, y) ==
    IF x.k = "nan" \/ y.k = "nan" THEN NaN
    ELSE IF x.k = "inf" /\ y.k = "inf" THEN (IF x.v = y.v THEN x ELSE NaN)
    ELSE IF x.k = "inf" THEN x
    ELSE IF y.k = "inf" THEN y
    ELSE IF x.k = "big" /\ y.k = "big"
         THEN (IF x.v + y.v = 0 THEN Fin(0) ELSE Big(x.v + y.v))
    ELSE IF x.k = "big" THEN x
    ELSE IF y.k = "big" THEN y
    ELSE Fin(x.v + y.v)

\* np.dot of two arrays of two components: two products and one sum.
FDot(a, b) == FAdd(FMul(a[1], b[1]), FMul(a[2], b[2]))

\* np.linalg.norm(a) is sqrt(dot(a, a)).  The square root keeps 0, inf and nan
\* and is increasing, so a norm is carried by its square.
NormSq(a) == FDot(a, a)

\* Line 56: norm(a) * norm(b), carried by its square.  It is 0, inf or nan
\* exactly when the product of the two norms is.
Denom(a, b) == FMul(NormSq(a), NormSq(b))

\* The float that cosine_similarity returns: a number, carried as the scores
\* above are, or nan.
NumScore(score) == [k |-> "num", v |-> score]

NaNScore == [k |-> "nan", v |-> <<0, 0>>]

\* The integers of an array of Fin values.
Nums(a) == [i \in 1..Len(a) |-> a[i].v]

\* Line 59: np.dot(a, b) / denom for a denom that is not 0.  A quotient with a
\* nan in it, and inf / inf, is nan; a finite number over inf is 0.0; a denom
\* that is a finite number comes from two arrays of Fin values.
Quotient(a, b, denom) ==
    IF FDot(a, b).k = "nan" \/ denom.k = "nan" THEN NaNScore
    ELSE IF denom.k = "inf"
         THEN (IF FDot(a, b).k = "inf" THEN NaNScore ELSE NumScore(ZeroScore))
    ELSE NumScore(cosine_similarity(Vec(Nums(a)), Vec(Nums(b))))

\* Line 57: `denom == 0`.  nan == 0 is False.
DenomIsZero(denom) == denom = Fin(0)

\* No call of cosine_similarity is under way.
CosineIdle ==
    /\ cs_a = <<>>
    /\ cs_b = <<>>
    /\ cs_pc = "idle"
    /\ cs_denom = Fin(0)
    /\ cs_result = NoResult

\* Lines 53-56.
CsNorms ==
    /\ cs_pc = "call"
    /\ cs_denom' = Denom(cs_a, cs_b)
    /\ cs_pc' = "check"
    /\ UNCHANGED <<cs_a, cs_b, cs_result>>
    /\ UNCHANGED <<tr_vars, rk_vars, cli_vars>>

\* Lines 57-58.
CsReturnZero ==
    /\ cs_pc = "check"
    /\ DenomIsZero(cs_denom)
    /\ cs_result' = Returned(NumScore(ZeroScore))
    /\ cs_pc' = "done"
    /\ UNCHANGED <<cs_a, cs_b, cs_denom>>
    /\ UNCHANGED <<tr_vars, rk_vars, cli_vars>>

\* Line 59.
CsDivide ==
    /\ cs_pc = "check"
    /\ ~DenomIsZero(cs_denom)
    /\ cs_result' = Returned(Quotient(cs_a, cs_b, cs_denom))
    /\ cs_pc' = "done"
    /\ UNCHANGED <<cs_a, cs_b, cs_denom>>
    /\ UNCHANGED <<tr_vars, rk_vars, cli_vars>>

CsNext == CsNorms \/ CsReturnZero \/ CsDivide

\* ---------------------------------------------------- the embedding table
\* dict.get(title) of a missing key, and the cell that notna() filters out.
NoEmbedding == <<>>

\* `show in embed_dict_info`
InTable(table, title) == title \in DOMAIN table /\ table[title] # NoEmbedding

\* embed_dict_info.get(title)
TableGet(table, title) == IF InTable(table, title) THEN table[title] ELSE NoEmbedding

\* Fault variant of ValidEmbeds: only favorites that are rows of the filtered frame.
ValidEmbedsFromFrame(shows, table, frame) ==
    SelectSeq([i \in 1..Len(shows) |->
                  IF \E r \in 1..Len(frame) : frame[r].Title = shows[i]
                  THEN TableGet(table, shows[i]) ELSE NoEmbedding],
              LAMBDA e : e # NoEmbedding)

\* Line 171: [embed_dict_info[show] for show in shows_list if show in embed_dict_info].
\* The filtered frame is at hand there and is not consulted.
ValidEmbeds(shows, table, frame) ==
    SelectSeq([i \in 1..Len(shows) |-> TableGet(table, shows[i])],
              LAMBDA e : e # NoEmbedding)

\* The component-wise sum of the first k vectors of vs.
RECURSIVE VecSum(_, _)
VecSum(vs, k) ==
    IF Len(vs) = 0 THEN <<>>
    ELSE IF k = 0 THEN [c \in 1..Len(vs[1]) |-> 0]
    ELSE [c \in 1..Len(vs[1]) |-> vs[k][c] + VecSum(vs, k - 1)[c]]

\* Line 175: np.mean(valid_embeds, axis=0).
Mean(valid_embeds) ==
    [num |-> VecSum(valid_embeds, Len(valid_embeds)), den |-> Len(valid_embeds)]

\* Fault variant of NoValidEmbeds: the check left out.
NoValidEmbedsUnchecked(valid_embeds) == FALSE

\* Line 172: `not valid_embeds`.
NoValidEmbeds(valid_embeds) == Len(valid_embeds) = 0

\* --------------------------------------------- inputs of the reconciler
\* Titles of catalog rows.
CatalogTitles == {<<"a", "b">>, <<"b", "a">>, <<"a", "b", "b">>, <<"c">>}

\* Titles as typed by a user.
RawTitles == {<<"a", "b">>, <<"a", "a">>, <<"b">>, <<>>}

\* None, '', a non-empty str, and lists of raw titles.
TrShowsInputs ==
    {NoneVal, PyStr(<<>>), PyStr(<<"a", "b">>)}
        \cup {PyList(s) : s \in SeqsUpTo(RawTitles, MaxShows)}

\* None, '', a non-empty str, and catalogs: frames with a Title column.
TrDfInputs ==
    {NoneVal, PyStr(<<>>), PyStr(<<"a", "b">>)}
        \cup {DataFrame(s) : s \in SeqsUpTo(CatalogTitles, MaxRows)}

\* The loop of the command-line program is not running.
CliIdle ==
    /\ cli_pc = "idle"
    /\ tv_shows = <<>>
    /\ correct_shows = <<>>
    /\ answer = <<>>
    /\ correction = <<>>
    /\ rounds = 0
    /\ rank_calls = 0

\* No call of ai_recommendation is under way.
RankIdle ==
    /\ shows_list = <<>>
    /\ df = <<>>
    /\ df_columns = {}
    /\ embed_dict_info = <<>>
    /\ pc = "idle"
    /\ work = <<>>
    /\ avg_embed = <<>>
    /\ recommendation_shows = <<>>
    /\ generate_shows = <<>>
    /\ result = NoResult
    /\ load_calls = 0
    /\ ai_calls = 0
    /\ printed = <<>>
    /\ enrichment = "none"

\* ------------------------------------------------- automatic_translator
TrInit ==
    /\ tr_shows \in TrShowsInputs
    /\ tr_df \in TrDfInputs
    /\ tr_pc = "call"
    /\ tr_i = 1
    /\ correct_shows_list = <<>>
    /\ tr_result = NoResult
    /\ RankIdle
    /\ CosineIdle
    /\ CliIdle

\* Fault variant of EmptyGuard: the catalog is not looked at.
EmptyGuardNoCatalogCheck(shows, catalog) == ~Truthy(shows)

\* Line 132: `not shows_list or df is None or not isinstance(df, pd.DataFrame)`.
EmptyGuard(shows, catalog) ==
    ~Truthy(shows) \/ catalog.kind = "None" \/ ~IsDataFrame(catalog)

\* Lines 132-135: the guard, then the empty result list.
TrEnter ==
    /\ tr_pc = "call"
    /\ IF EmptyGuard(tr_shows, tr_df)
       THEN /\ tr_result' = Returned(<<>>)
            /\ tr_pc' = "done"
       ELSE /\ tr_result' = tr_result
            /\ tr_pc' = "loop"
    /\ UNCHANGED <<tr_shows, tr_df, tr_i, correct_shows_list>>
    /\ UNCHANGED <<rk_vars, cs_vars, cli_vars>>

\* Lines 136-139: one pass of the loop.  idxmax() of an empty Series raises
\* ValueError, which nothing catches.
TrIterate ==
    /\ tr_pc = "loop"
    /\ tr_i <= Len(Iterate(tr_shows))
    /\ LET show == Iterate(tr_shows)[tr_i]
           ratios == Ratios(show, tr_df.val)
       IN  IF Len(ratios) = 0
           THEN /\ tr_result' = Raised("ValueError")
                /\ tr_pc' = "done"
                /\ UNCHANGED <<tr_i, correct_shows_list>>
           ELSE /\ correct_shows_list' = Append(correct_shows_list, tr_df.val[IdxMax(ratios)])
                /\ tr_i' = tr_i + 1
                /\ UNCHANGED <<tr_result, tr_pc>>
    /\ UNCHANGED <<tr_shows, tr_df>>
    /\ UNCHANGED <<rk_vars, cs_vars, cli_vars>>

\* Line 141.
TrReturn ==
    /\ tr_pc = "loop"
    /\ tr_i > Len(Iterate(tr_shows))
    /\ tr_result' = Returned(correct_shows_list)
    /\ tr_pc' = "done"
    /\ UNCHANGED <<tr_shows, tr_df, tr_i, correct_shows_list>>
    /\ UNCHANGED <<rk_vars, cs_vars, cli_vars>>

TrNext == TrEnter \/ TrIterate \/ TrReturn

\* The reconciler called on its own, as the tests call it.
SpecReconcile == TrInit /\ [][TrNext]_vars

\* --------------------------------------------------------- ai_recommendation
TopK == 5

NoScore == <<>>

EmptyFrame == <<>>

\* Lines 162 and 173: `return pd.DataFrame(), pd.DataFrame()`.
EmptyPair == [rec |-> EmptyFrame, gen |-> EmptyFrame]

\* Lines 164-169: the copy of the catalog with its Embedding column, cut down to
\* the rows whose embedding is not missing.  A row keeps its index label.
FilteredFrame(catalog, table) ==
    SelectSeq([i \in 1..Len(catalog) |->
                  [idx |-> i, Title |-> catalog[i],
                   Embedding |-> TableGet(table, catalog[i]), Similarity |-> NoScore]],
              LAMBDA row : row.Embedding # NoEmbedding)

\* Lines 178-182: the Similarity column.
WithSimilarity(frame, centroid) ==
    [i \in 1..Len(frame) |->
        [frame[i] EXCEPT !.Similarity = cosine_similarity(Vec(frame[i].Embedding), centroid)]]

\* Fault variant of ExcludeInputShows: nothing is excluded.
KeepInputShows(frame, shows) == frame

\* Line 185: df[~df['Title'].isin(shows_list)].
ExcludeInputShows(frame, shows) ==
    SelectSeq(frame, LAMBDA row : \A i \in 1..Len(shows) : row.Title # shows[i])

\* Fault variant of SortValuesHead: ascending=True.
RECURSIVE AscendingHeads(_, _, _)
AscendingHeads(frame, P, k) ==
    IF k = 0 \/ P = {} THEN {<<>>}
    ELSE LET low == {i \in P : \A j \in P : ScoreLeq(frame[i].Similarity, frame[j].Similarity)}
         IN  UNION {{<<frame[i]>> \o h : h \in AscendingHeads(frame, P \ {i}, k - 1)} : i \in low}

SortValuesHeadAscending(frame, k) == AscendingHeads(frame, 1..Len(frame), k)

\* The first k rows of every order that sort_values may leave the rows of P in:
\* the next row is any row of the highest score left.
RECURSIVE DescendingHeads(_, _, _)
DescendingHeads(frame, P, k) ==
    IF k = 0 \/ P = {} THEN {<<>>}
    ELSE LET top == {i \in P : \A j \in P : ScoreLeq(frame[j].Similarity, frame[i].Similarity)}
         IN  UNION {{<<frame[i]>> \o h : h \in DescendingHeads(frame, P \ {i}, k - 1)} : i \in top}

\* Lines 188-191: sort_values('Similarity', ascending=False).head(k).  sort_values
\* sorts with its default kind, quicksort, which pandas documents as not stable:
\* rows of equal Similarity come out in an order the build decides.
SortValuesHead(frame, k) == DescendingHeads(frame, 1..Len(frame), k)

\* What create_ai_tv returns when it succeeds: a frame of two generated shows.
GeneratedShows == <<"generated show 1", "generated show 2">>

\* Line 161: `not shows_list`.
RkEmptyShows(shows) == Len(shows) = 0

\* Lines 161-162.
RkEnter ==
    /\ pc = "call"
    /\ IF RkEmptyShows(shows_list)
       THEN /\ result' = Returned(EmptyPair)
            /\ pc' = "returned"
       ELSE /\ result' = result
            /\ pc' = "load"
    /\ UNCHANGED <<shows_list, df, df_columns, embed_dict_info, work, avg_embed, recommendation_shows,
                   generate_shows, load_calls, ai_calls, printed, enrichment>>
    /\ UNCHANGED <<tr_vars, cs_vars, cli_vars>>

\* The frames of a call: the caller's catalog and the frames the call makes.
CallerFrame == "caller's frame"

NewFrame == "new frame"

\* Fault variant of DfCopy: no copy, the local name stays bound to the caller's frame.
DfNoCopy(frame) == frame

\* Line 164: df.copy() makes a new frame with the same rows and columns.
DfCopy(frame) == NewFrame

\* Line 168: `df['Embedding'] = ...` adds the column to the frame that the local
\* name df is bound to (or replaces it there); the caller's catalog has the
\* column afterwards when that frame is the caller's.
ColumnsAfterSetEmbedding(frame, columns) ==
    IF frame = CallerFrame THEN columns \cup {"Embedding"} ELSE columns

\* Lines 164-169: copy the catalog, load the table, attach and filter embeddings.
\* The filter of line 169 makes a new frame again, so the Similarity column of
\* line 182 is set on a frame of the call.
RkLoadAndFilter ==
    /\ pc = "load"
    /\ load_calls' = load_calls + 1
    /\ work' = FilteredFrame(df, embed_dict_info)
    /\ df_columns' = ColumnsAfterSetEmbedding(DfCopy(CallerFrame), df_columns)
    /\ pc' = "centroid"
    /\ UNCHANGED <<shows_list, df, embed_dict_info, avg_embed, recommendation_shows,
                   generate_shows, result, ai_calls, printed, enrichment>>
    /\ UNCHANGED <<tr_vars, cs_vars, cli_vars>>

\* Lines 171-175.
RkCentroid ==
    /\ pc = "centroid"
    /\ LET valid_embeds == ValidEmbeds(shows_list, embed_dict_info, work)
       IN  IF NoValidEmbeds(valid_embeds)
           THEN /\ result' = Returned(EmptyPair)
                /\ pc' = "returned"
                /\ avg_embed' = avg_embed
           ELSE /\ avg_embed' = Mean(valid_embeds)
                /\ pc' = "rank"
                /\ result' = result
    /\ UNCHANGED <<shows_list, df, df_columns, embed_dict_info, work, recommendation_shows,
                   generate_shows, load_calls, ai_calls, printed, enrichment>>
    /\ UNCHANGED <<tr_vars, cs_vars, cli_vars>>

\* Lines 178-191.
RkRank ==
    /\ pc = "rank"
    /\ work' = WithSimilarity(work, avg_embed)
    /\ recommendation_shows' \in SortValuesHead(ExcludeInputShows(work', shows_list), TopK)
    /\ pc' = "ai"
    /\ UNCHANGED <<shows_list, df, df_columns, embed_dict_info, avg_embed, generate_shows, result,
                   load_calls, ai_calls, printed, enrichment>>
    /\ UNCHANGED <<tr_vars, cs_vars, cli_vars>>

\* Lines 194-195 and 201: create_ai_tv returns.
RkCreateAiTvReturns ==
    /\ pc = "ai"
    /\ ai_calls' = ai_calls + 1
    /\ generate_shows' = GeneratedShows
    /\ result' = Returned([rec |-> recommendation_shows, gen |-> generate_shows'])
    /\ pc' = "returned"
    /\ UNCHANGED <<shows_list, df, df_columns, embed_dict_info, work, avg_embed, recommendation_shows,
                   load_calls, printed, enrichment>>
    /\ UNCHANGED <<tr_vars, cs_vars, cli_vars>>

\* Fault variant of RkCreateAiTvRaises: no handler, the exception leaves the function.
RkCreateAiTvRaisesUncaught ==
    /\ pc = "ai"
    /\ ai_calls' = ai_calls + 1
    /\ result' = Raised("Exception")
    /\ pc' = "returned"
    /\ UNCHANGED <<shows_list, df, df_columns, embed_dict_info, work, avg_embed, recommendation_shows,
                   generate_shows, load_calls, printed, enrichment>>
    /\ UNCHANGED <<tr_vars, cs_vars, cli_vars>>

\* Lines 194-201: create_ai_tv raises, the handler puts an empty frame in its place.
RkCreateAiTvRaises ==
    /\ pc = "ai"
    /\ ai_calls' = ai_calls + 1
    /\ generate_shows' = EmptyFrame
    /\ result' = Returned([rec |-> recommendation_shows, gen |-> generate_shows'])
    /\ pc' = "returned"
    /\ UNCHANGED <<shows_list, df, df_columns, embed_dict_info, work, avg_embed, recommendation_shows,
                   load_calls, printed, enrichment>>
    /\ UNCHANGED <<tr_vars, cs_vars, cli_vars>>

\* ------------------------------------------ the program, after the ranking
\* Line 234: max(0.0, row['Similarity']).
ClampScore(score) == IF ScoreLess(score, ZeroScore) THEN ZeroScore ELSE score

\* Lines 232-235: one printed line per recommendation.
PrintedLines(rec) ==
    [i \in 1..Len(rec) |->
        [Title |-> rec[i].Title, Similarity |-> ClampScore(rec[i].Similarity)]]

\* Line 238: `not generate_shows.empty and len(generate_shows) >= 2`.
HasGeneratedShows(gen) == Len(gen) # 0 /\ Len(gen) >= 2

\* Lines 230-252: the recommendations are printed, the generated shows are
\* announced and show_image is called; an exception of show_image is caught and
\* reported.
MainShowGenerated ==
    /\ pc = "returned"
    /\ result.kind = "return"
    /\ HasGeneratedShows(result.val.gen)
    /\ printed' = PrintedLines(result.val.rec)
    /\ enrichment' \in {"displayed", "image_error"}
    /\ pc' = "exit"
    /\ UNCHANGED <<shows_list, df, df_columns, embed_dict_info, work, avg_embed, recommendation_shows,
                   generate_shows, result, load_calls, ai_calls>>
    /\ UNCHANGED <<tr_vars, cs_vars, cli_vars>>

\* Lines 230-235 and 253-255: the recommendations are printed and the generated
\* shows are skipped.
MainSkipGenerated ==
    /\ pc = "returned"
    /\ result.kind = "return"
    /\ ~HasGeneratedShows(result.val.gen)
    /\ printed' = PrintedLines(result.val.rec)
    /\ enrichment' = "skipped"
    /\ pc' = "exit"
    /\ UNCHANGED <<shows_list, df, df_columns, embed_dict_info, work, avg_embed, recommendation_shows,
                   generate_shows, result, load_calls, ai_calls>>
    /\ UNCHANGED <<tr_vars, cs_vars, cli_vars>>

\* ------------------------------------------------------ inputs of the ranker
\* The columns of the catalog that the ranker reads.
CatalogColumns == {"Title"}

\* Titles of catalog rows, in catalog order.
RankTitlePool == <<"s1", "s2", "s3", "s4", "s5", "s6", "s7", "s8">>

\* A title with an embedding in the table and no row in the catalog.
OffCatalogTitle == "x"

RankCatalogs == {SubSeq(RankTitlePool, 1, n) : n \in 0..MaxRankRows}

RowEmbeddings == {<<1, 0>>, <<0, 1>>}

OffCatalogEmbedding == <<2, 1>>

RankKeys == {RankTitlePool[i] : i \in 1..Len(RankTitlePool)} \cup {OffCatalogTitle}

\* The tables: every catalog title has one of the row embeddings or none, the
\* off-catalog title has its embedding, no other title has one.
RankTables(catalog) ==
    {[key \in RankKeys |->
        IF key = OffCatalogTitle THEN OffCatalogEmbedding
        ELSE IF \E i \in 1..Len(catalog) : catalog[i] = key
             THEN f[CHOOSE i \in 1..Len(catalog) : catalog[i] = key]
             ELSE NoEmbedding] :
     f \in [1..Len(catalog) -> RowEmbeddings \cup {NoEmbedding}]}

\* A title with no embedding in the table and no row in the catalog.
UnknownTitle == "y"

\* The lists of favorites: none, one that nothing resolves, one of the catalog,
\* titles off the catalog, and a mix with a title given twice.
FavoriteLists ==
    {<<>>, <<UnknownTitle>>, <<"s2">>, <<OffCatalogTitle, UnknownTitle>>,
     <<"s2", "s2", OffCatalogTitle>>}

\* No call of automatic_translator is under way.
TrIdle ==
    /\ tr_shows = NoneVal
    /\ tr_df = NoneVal
    /\ tr_pc = "idle"
    /\ tr_i = 1
    /\ correct_shows_list = <<>>
    /\ tr_result = NoResult

RkInit ==
    /\ shows_list \in FavoriteLists
    /\ df \in RankCatalogs
    /\ df_columns = CatalogColumns
    /\ embed_dict_info \in RankTables(df)
    /\ pc = "call"
    /\ work = EmptyFrame
    /\ avg_embed = <<>>
    /\ recommendation_shows = EmptyFrame
    /\ generate_shows = EmptyFrame
    /\ result = NoResult
    /\ load_calls = 0
    /\ ai_calls = 0
    /\ printed = <<>>
    /\ enrichment = "none"
    /\ TrIdle
    /\ CosineIdle
    /\ CliIdle

RkNext ==
    \/ RkEnter
    \/ RkLoadAndFilter
    \/ RkCentroid
    \/ RkRank
    \/ RkCreateAiTvReturns
    \/ RkCreateAiTvRaises
    \/ MainShowGenerated
    \/ MainSkipGenerated

\* ai_recommendation called on any favorites, catalog and table, and the program
\* from that call on.
SpecRank == RkInit /\ [][RkNext]_vars

\* ------------------------------------- the program, up to the ranking
\* A line that the user types is a str: a sequence of characters.
Whitespace == {" "}

\* str.split(','): the pieces between the commas; one empty piece for ''.
RECURSIVE Split(_)
Split(line) ==
    IF line = <<>> THEN << <<>> >>
    ELSE LET rest == Split(Tail(line))
         IN  IF Head(line) = "," THEN << <<>> >> \o rest
             ELSE << <<Head(line)>> \o Head(rest) >> \o Tail(rest)

RECURSIVE LStrip(_)
LStrip(str) == IF str # <<>> /\ Head(str) \in Whitespace THEN LStrip(Tail(str)) ELSE str

RECURSIVE RStrip(_)
RStrip(str) ==
    IF str # <<>> /\ str[Len(str)] \in Whitespace
    THEN RStrip(SubSeq(str, 1, Len(str) - 1)) ELSE str

\* str.strip().
Strip(str) == RStrip(LStrip(str))

\* str.lower(), on the letters that the answers are made of.
Lower(str) ==
    [i \in 1..Len(str) |->
        IF str[i] = "Y" THEN "y" ELSE IF str[i] = "N" THEN "n" ELSE str[i]]

\* Line 215: [s.strip() for s in tv_shows.split(',') if s.strip()].
SplitTitles(line) ==
    SelectSeq([i \in 1..Len(Split(line)) |-> Strip(Split(line)[i])],
              LAMBDA title : title # <<>>)

\* Fault variant of TooFewShows: one title is enough.
TooFewShowsButOne(titles) == Len(titles) < 1

\* Line 217: `len(tv_shows) <= 1`.
TooFewShows(titles) == Len(titles) <= 1

\* Line 224: `correction != 'y'`, negated.
Confirmed(normal_answer) == normal_answer = <<"y">>

\* The lines typed at the first prompt: '', 'ab', ' ,ab, ', 'ab,ba', ' ab , b '
\* and 'a,,a'.
InputLines ==
    {<<>>,
     <<"a", "b">>,
     <<" ", ",", "a", "b", ",", " ">>,
     <<"a", "b", ",", "b", "a">>,
     <<" ", "a", "b", " ", ",", " ", "b", " ">>,
     <<"a", ",", ",", "a">>}

\* The answers typed at the confirmation: 'y', 'n', 'Y', ' y ', 'yes' and ''.
Answers ==
    {<<"y">>, <<"n">>, <<"Y">>, <<" ", "y", " ">>, <<"y", "e", "s">>, <<>>}

\* Lines 209-221: one round up to the call of automatic_translator: the line is
\* read and cut into titles; with too few of them the loop starts over, else
\* automatic_translator is called with the titles and the catalog.
MainPrompt ==
    /\ cli_pc = "prompt"
    /\ rounds < MaxRounds
    /\ rounds' = rounds + 1
    /\ \E line \in InputLines : tv_shows' = SplitTitles(line)
    /\ IF TooFewShows(tv_shows')
       THEN /\ cli_pc' = "prompt"
            /\ UNCHANGED tr_vars
       ELSE /\ cli_pc' = "reconcile"
            /\ tr_shows' = PyList(tv_shows')
            /\ tr_df' = DataFrame(df)
            /\ tr_pc' = "call"
            /\ tr_i' = 1
            /\ correct_shows_list' = <<>>
            /\ tr_result' = NoResult
    /\ UNCHANGED <<correct_shows, answer, correction, rank_calls>>
    /\ UNCHANGED <<rk_vars, cs_vars>>

\* Lines 221-228: automatic_translator has returned; the user answers, and the
\* loop ends on 'y' and starts over on anything else.
MainConfirm ==
    /\ cli_pc = "reconcile"
    /\ tr_pc = "done"
    /\ tr_result.kind = "return"
    /\ correct_shows' = tr_result.val
    /\ answer' \in Answers
    /\ correction' = Lower(Strip(answer'))
    /\ cli_pc' = IF Confirmed(correction') THEN "confirmed" ELSE "prompt"
    /\ UNCHANGED <<tv_shows, rounds, rank_calls>>
    /\ UNCHANGED <<tr_vars, rk_vars, cs_vars>>

\* Line 221: automatic_translator has raised; nothing catches the exception and
\* the program ends.
MainCrash ==
    /\ cli_pc = "reconcile"
    /\ tr_pc = "done"
    /\ tr_result.kind = "raise"
    /\ cli_pc' = "crashed"
    /\ UNCHANGED <<tv_shows, correct_shows, answer, correction, rounds, rank_calls>>
    /\ UNCHANGED <<tr_vars, rk_vars, cs_vars>>

\* Line 230: the call of ai_recommendation with the confirmed titles.
MainCallRank ==
    /\ cli_pc = "confirmed"
    /\ cli_pc' = "ranking"
    /\ rank_calls' = rank_calls + 1
    /\ shows_list' = correct_shows
    /\ pc' = "call"
    /\ UNCHANGED <<df, df_columns, embed_dict_info, work, avg_embed, recommendation_shows,
                   generate_shows, result, load_calls, ai_calls, printed, enrichment>>
    /\ UNCHANGED <<tv_shows, correct_shows, answer, correction, rounds>>
    /\ UNCHANGED <<tr_vars, cs_vars>>

\* The catalogs read from imdb_tvshows.csv (line 206).
CliCatalogs ==
    {<<>>,
     << <<"a", "b">>, <<"b", "a">> >>,
     << <<"c">>, <<"a", "b">>, <<"a", "b", "b">>, <<"b", "a">> >>}

\* The embedding table: every title but 'c' has an embedding.
CliTable ==
    [title \in CatalogTitles |->
        IF title = <<"c">> THEN NoEmbedding
        ELSE IF title = <<"a", "b">> THEN <<1, 0>>
        ELSE IF title = <<"b", "a">> THEN <<0, 1>>
        ELSE <<1, 1>>]

\* Lines 204-208: the catalog is read and the loop begins.
CliInit ==
    /\ cli_pc = "prompt"
    /\ tv_shows = <<>>
    /\ correct_shows = <<>>
    /\ answer = <<>>
    /\ correction = <<>>
    /\ rounds = 0
    /\ rank_calls = 0
    /\ shows_list = <<>>
    /\ df \in CliCatalogs
    /\ df_columns = CatalogColumns
    /\ embed_dict_info = CliTable
    /\ pc = "idle"
    /\ work = EmptyFrame
    /\ avg_embed = <<>>
    /\ recommendation_shows = EmptyFrame
    /\ generate_shows = EmptyFrame
    /\ result = NoResult
    /\ load_calls = 0
    /\ ai_calls = 0
    /\ printed = <<>>
    /\ enrichment = "none"
    /\ TrIdle
    /\ CosineIdle

CliNext ==
    \/ MainPrompt
    \/ TrEnter
    \/ TrIterate
    \/ TrReturn
    \/ MainConfirm
    \/ MainCrash
    \/ MainCallRank
    \/ RkEnter
    \/ RkLoadAndFilter
    \/ RkCentroid
    \/ RkRank
    \/ RkCreateAiTvReturns
    \/ RkCreateAiTvRaises
    \/ MainShowGenerated
    \/ MainSkipGenerated

\* The command-line program, from reading the catalog to its end.
SpecCli == CliInit /\ [][CliNext]_vars

\* ------------------------------------------------- calls of the two functions
CallsInit == TrInit \/ RkInit

CallsNext == TrNext \/ RkNext

\* A call of automatic_translator or a call of ai_recommendation, on any of
\* their arguments, and the program after the latter.
SpecCalls == CallsInit /\ [][CallsNext]_vars

\* ------------------------------------------- inputs of cosine_similarity
\* The components: 0, small numbers of either sign, a number whose square
\* overflows, inf and nan.
FloatValues == {Fin(0), Fin(1), Fin(-1), Fin(2), Big(1), Inf(1), NaN}

FloatVectors == {<<x, y>> : x \in FloatValues, y \in FloatValues}

CsInit ==
    /\ cs_a \in FloatVectors
    /\ cs_b \in FloatVectors
    /\ cs_pc = "call"
    /\ cs_denom = Fin(0)
    /\ cs_result = NoResult
    /\ TrIdle
    /\ RankIdle
    /\ CliIdle

\* cosine_similarity called on any two arrays of two float64.
SpecCosine == CsInit /\ [][CsNext]_vars

\* ------------------------------------------------ claims: the reconciler
TrRaw == Iterate(tr_shows)

TrCatalog == tr_df.val

TrNormalCall == Truthy(tr_shows) /\ IsDataFrame(tr_df) /\ Len(TrCatalog) > 0

\* C1: whenever rawTitles is None or empty, or the catalog is None or not a
\* DataFrame, automatic_translator never reaches its loop and returns the empty
\* list without raising.
C1_DegenerateArgumentsReturnEmpty ==
    (tr_shows.kind = "None" \/ Len(tr_shows.val) = 0 \/ tr_df.kind \in {"None", "str"})
        => /\ tr_pc # "loop"
           /\ tr_pc = "done" => tr_result = Returned(<<>>)

\* C1 witness: a finished call with a non-empty list of raw titles and no catalog.
C1_Witness ==
    /\ tr_pc = "done"
    /\ tr_shows.kind = "list" /\ Len(tr_shows.val) > 0
    /\ tr_df.kind = "None"
    /\ tr_result = Returned(<<>>)

\* C2 (as claimed): with non-empty rawTitles and a DataFrame of zero rows,
\* automatic_translator returns the empty list and raises nothing.
C2_EmptyCatalogReturnsEmpty ==
    (/\ tr_pc = "done"
     /\ tr_shows.kind = "list" /\ Len(tr_shows.val) > 0
     /\ IsDataFrame(tr_df) /\ Len(TrCatalog) = 0)
        => tr_result = Returned(<<>>)

\* C3: for non-empty rawTitles and a non-empty catalog, the result has the length
\* of rawTitles and output[i] is a catalog title whose fuzzy score against
\* rawTitles[i] is the maximum over the catalog; equal best matches are kept.
C3_EachOutputIsABestMatch ==
    (tr_pc = "done" /\ TrNormalCall)
        => /\ tr_result.kind = "return"
           /\ Len(tr_result.val) = Len(TrRaw)
           /\ \A i \in 1..Len(TrRaw) :
                \E k \in 1..Len(TrCatalog) :
                    /\ tr_result.val[i] = TrCatalog[k]
                    /\ \A j \in 1..Len(TrCatalog) :
                          Ratio(TrRaw[i], TrCatalog[j]) <= Ratio(TrRaw[i], TrCatalog[k])

\* C3 witness: two different raw titles resolved to the same catalog title, both
\* kept, from a catalog that also holds a worse-scoring title.
C3_Witness ==
    /\ tr_pc = "done" /\ TrNormalCall
    /\ tr_result.kind = "return" /\ Len(tr_result.val) = 2
    /\ TrRaw[1] # TrRaw[2]
    /\ tr_result.val[1] = tr_result.val[2]
    /\ \E j \in 1..Len(TrCatalog) :
          Ratio(TrRaw[1], TrCatalog[j]) < Ratio(TrRaw[1], tr_result.val[1])

\* C4: when several catalog titles reach the maximum score for a raw title, the
\* one that comes first in catalog order is selected.
C4_TieGoesToFirstInCatalogOrder ==
    (tr_pc = "done" /\ TrNormalCall /\ tr_result.kind = "return")
        => \A i \in 1..Len(tr_result.val) :
              \E k \in 1..Len(TrCatalog) :
                  /\ tr_result.val[i] = TrCatalog[k]
                  /\ \A j \in 1..Len(TrCatalog) :
                        Ratio(TrRaw[i], TrCatalog[j]) <= Ratio(TrRaw[i], TrCatalog[k])
                  /\ \A j \in 1..(k - 1) :
                        Ratio(TrRaw[i], TrCatalog[j]) < Ratio(TrRaw[i], TrCatalog[k])

\* C4 witness: two different catalog titles tie at the maximum for a raw title and
\* the result is the earlier of the two.
C4_Witness ==
    /\ tr_pc = "done" /\ TrNormalCall /\ tr_result.kind = "return"
    /\ \E i \in 1..Len(tr_result.val) : \E k, m \in 1..Len(TrCatalog) :
          /\ k < m
          /\ TrCatalog[k] # TrCatalog[m]
          /\ Ratio(TrRaw[i], TrCatalog[k]) = Ratio(TrRaw[i], TrCatalog[m])
          /\ \A j \in 1..Len(TrCatalog) :
                Ratio(TrRaw[i], TrCatalog[j]) <= Ratio(TrRaw[i], TrCatalog[k])
          /\ tr_result.val[i] = TrCatalog[k]

\* --------------------------------------------------- claims: the ranker
RkFavorites == {shows_list[i] : i \in 1..Len(shows_list)}

\* ai_recommendation has just returned a pair to its caller.
RkReturned == pc = "returned" /\ result.kind = "return"

RkRec == result.val.rec

RECURSIVE SumSeq(_)
SumSeq(s) == IF s = <<>> THEN 0 ELSE Head(s) + SumSeq(Tail(s))

\* The catalog rows that are candidates: they have an embedding and their title
\* is not a favorite.
RkCandidates ==
    {r \in 1..Len(df) : InTable(embed_dict_info, df[r]) /\ df[r] \notin RkFavorites}

RkCandidateScore(r) == cosine_similarity(Vec(embed_dict_info[df[r]]), avg_embed)

RkReturnedRows == {RkRec[i].idx : i \in 1..Len(RkRec)}

RkSomeFavoriteResolves == \E i \in 1..Len(shows_list) : InTable(embed_dict_info, shows_list[i])

\* The list is sorted by descending score, has min(TopK, candidates) entries, all
\* of them candidates, and no candidate left out scores higher than one returned.
RkIsTopRanking ==
    /\ Len(RkRec) = Min(TopK, Cardinality(RkCandidates))
    /\ \A i \in 1..Len(RkRec) :
          /\ RkRec[i].idx \in RkCandidates
          /\ RkRec[i].Title = df[RkRec[i].idx]
          /\ RkRec[i].Similarity = RkCandidateScore(RkRec[i].idx)
    /\ \A i, j \in 1..Len(RkRec) : i < j => RkRec[i].idx # RkRec[j].idx
    /\ \A i, j \in 1..Len(RkRec) :
          i < j => ScoreLeq(RkRec[j].Similarity, RkRec[i].Similarity)
    /\ \A r \in RkCandidates \ RkReturnedRows : \A i \in 1..Len(RkRec) :
          ScoreLeq(RkCandidateScore(r), RkRec[i].Similarity)

\* C5: the recommendation list that ai_recommendation returns holds no entry whose
\* title is one of reconciledFavorites.
C5_NoFavoriteIsRecommended ==
    RkReturned => \A i \in 1..Len(RkRec) : RkRec[i].Title \notin RkFavorites

\* C5 witness: a non-empty list was returned although a favorite is a catalog row
\* with an embedding, which the ranking scored.
C5_Witness ==
    /\ RkReturned
    /\ Len(RkRec) > 0
    /\ \E r \in 1..Len(work) : work[r].Title \in RkFavorites /\ work[r].Similarity # NoScore

\* C6 (as claimed): the returned list is sorted by descending score and has exactly
\* min(5, C) entries, C the number of catalog entries that have an embedding and
\* are no favorite; every returned score is at least every non-returned one.
C6_AlwaysTopRanking == RkReturned => RkIsTopRanking

\* C6 (amended): that holds when at least one favorite has an embedding in the
\* table; when none has, the returned list is empty whatever C is.
C6_TopRankingWhenAFavoriteResolves ==
    RkReturned => IF RkSomeFavoriteResolves THEN RkIsTopRanking ELSE RkRec = EmptyFrame

\* C6 witness: more candidates than TopK, a returned list of TopK entries with
\* two different scores in it, and a candidate left out.
C6_Witness ==
    /\ RkReturned
    /\ Cardinality(RkCandidates) > TopK
    /\ Len(RkRec) = TopK
    /\ ScoreLess(RkRec[TopK].Similarity, RkRec[1].Similarity)
    /\ \E r \in RkCandidates \ RkReturnedRows :
          ScoreLess(RkCandidateScore(r), RkRec[1].Similarity)

\* C7 (as claimed): the sort is stable: returned entries of equal score are in
\* catalog order, and of the candidates that tie across the cut-off the ones
\* earlier in the catalog are kept.
C7_TiesKeepCatalogOrder ==
    RkReturned =>
        /\ \A i, j \in 1..Len(RkRec) :
              (i < j /\ RkRec[i].Similarity = RkRec[j].Similarity)
                  => RkRec[i].idx < RkRec[j].idx
        /\ \A r \in RkCandidates \ RkReturnedRows : \A i \in 1..Len(RkRec) :
              (RkSomeFavoriteResolves /\ RkCandidateScore(r) = RkRec[i].Similarity)
                  => RkRec[i].idx < r

\* The favorites, by position, that count for the centroid, and the sum of
\* component c of their embeddings.
RkInTablePositions == {i \in 1..Len(shows_list) : InTable(embed_dict_info, shows_list[i])}

RkInFilteredCatalogPositions ==
    {i \in 1..Len(shows_list) :
        \E r \in 1..Len(df) : df[r] = shows_list[i] /\ InTable(embed_dict_info, df[r])}

RkComponentSum(positions, c) ==
    SumSeq([i \in 1..Len(shows_list) |->
               IF i \in positions THEN embed_dict_info[shows_list[i]][c] ELSE 0])

\* avg_embed is the mean of the embeddings of the favorites at these positions.
RkCentroidIsMeanOver(positions) ==
    /\ positions # {}
    /\ avg_embed.den > 0
    /\ \A c \in 1..Len(avg_embed.num) :
          avg_embed.num[c] * Cardinality(positions) = avg_embed.den * RkComponentSum(positions, c)

\* The centroid has been computed and the scoring is about to use it.
RkCentroidComputed == pc = "rank"

\* C8 (as claimed): the centroid is the component-wise mean of the embeddings of
\* exactly the favorites that are entries of the filtered catalog; a favorite
\* that is no entry of the filtered catalog contributes nothing.
C8_CentroidOverFilteredCatalog ==
    RkCentroidComputed => RkCentroidIsMeanOver(RkInFilteredCatalogPositions)

\* C8 (amended): the centroid is the component-wise mean of the embeddings of
\* exactly the favorites that are keys of the embedding table, each counted as
\* often as it is listed, whether or not the catalog has a row for it.
C8_CentroidOverEmbeddingTable ==
    /\ RkCentroidComputed => RkCentroidIsMeanOver(RkInTablePositions)
    /\ (pc \in {"returned", "exit"} /\ RkInTablePositions # {}) => ai_calls > 0

\* C8 witness: a centroid was computed from a favorite listed twice together with
\* a favorite that has an embedding and no catalog row.
C8_Witness ==
    /\ RkCentroidComputed
    /\ \E i, j \in RkInTablePositions : i # j /\ shows_list[i] = shows_list[j]
    /\ RkInTablePositions \ RkInFilteredCatalogPositions # {}

\* C9: if no favorite has an embedding in the table, ai_recommendation computes no
\* ranking, does not call create_ai_tv and returns two empty frames without
\* raising; if the list of favorites is empty it never calls load_embeddings.
C9_NothingResolvesGivesEmptyResult ==
    /\ ~RkSomeFavoriteResolves =>
          /\ ai_calls = 0
          /\ pc \notin {"rank", "ai"}
          /\ pc \in {"returned", "exit"} => result = Returned(EmptyPair)
    /\ Len(shows_list) = 0 => load_calls = 0

\* C9 witness: favorites were given, the table was loaded and resolves none of
\* them, the catalog has rows with embeddings, and the empty pair came back.
C9_Witness ==
    /\ pc = "returned"
    /\ Len(shows_list) > 0
    /\ ~RkSomeFavoriteResolves
    /\ load_calls = 1
    /\ Len(work) > 0
    /\ result = Returned(EmptyPair)

\* create_ai_tv was called and raised.
RkAiFailed == pc \in {"returned", "exit"} /\ ai_calls > 0 /\ generate_shows # GeneratedShows

\* C10: when create_ai_tv raises, ai_recommendation still returns, and returns the
\* ranking it computed before the call (the one it returns when the call
\* succeeds) with an empty frame of generated shows; the program then prints
\* those recommendations and skips the generated shows.
C10_AiFailureLeavesRanking ==
    /\ (pc \in {"returned", "exit"} /\ ai_calls > 0) =>
          /\ result.kind = "return"
          /\ RkRec = recommendation_shows
    /\ RkAiFailed =>
          /\ result.kind = "return"
          /\ result.val.gen = EmptyFrame
          /\ pc = "exit" =>
                /\ enrichment = "skipped"
                /\ Len(printed) = Len(recommendation_shows)
                /\ \A i \in 1..Len(printed) : printed[i].Title = recommendation_shows[i].Title

\* C10 witness: create_ai_tv raised, and the program ended having printed a
\* non-empty ranking and skipped the generated shows.
C10_Witness ==
    /\ pc = "exit"
    /\ RkAiFailed
    /\ Len(printed) > 0
    /\ enrichment = "skipped"

\* ------------------------------------------- claims: cosine_similarity
CsDone == cs_pc = "done"

CsIsZeroVector(a) == \A i \in 1..Len(a) : a[i] = Fin(0)

\* Every component is a finite number.
CsIsFinite(a) == \A i \in 1..Len(a) : a[i].k \in {"fin", "big"}

\* The sum of the squares of the components does not overflow.
CsHasFiniteNorm(a) == NormSq(a).k = "fin"

CsReturnsZero == cs_result = Returned(NumScore(ZeroScore))

\* C11: cosine_similarity(a, b) returns exactly 0.0 whenever a or b is the zero
\* vector, whatever the other argument is; here for every other argument made
\* of finite numbers.
C11_ZeroVectorGivesZero ==
    (CsDone /\ CsIsFinite(cs_a) /\ CsIsFinite(cs_b)
        /\ (CsIsZeroVector(cs_a) \/ CsIsZeroVector(cs_b)))
    => CsReturnsZero

\* What the code does give: 0.0 for a zero vector against any vector whose norm
\* is a finite number, and never an exception.
CsZeroVectorAgainstFiniteNorm ==
    /\ (CsDone /\ CsHasFiniteNorm(cs_a) /\ CsHasFiniteNorm(cs_b)
            /\ (CsIsZeroVector(cs_a) \/ CsIsZeroVector(cs_b)))
       => CsReturnsZero
    /\ cs_result.kind # "raise"

CsZeroVectorAgainstFiniteNormWitness ==
    /\ CsDone
    /\ CsIsZeroVector(cs_a)
    /\ ~CsIsZeroVector(cs_b)
    /\ CsHasFiniteNorm(cs_b)
    /\ CsReturnsZero

\* --------------------------------------------- claims: the caller's catalog
\* C12: neither automatic_translator nor ai_recommendation mutates the catalog
\* passed in: no step of either call, on any path to a return or an exception,
\* changes the rows, the columns or the values of the caller's frame.
C12_CatalogIsNotMutated ==
    [][/\ tr_df' = tr_df
       /\ df' = df
       /\ df_columns' = df_columns]_vars

\* ai_recommendation has returned after create_ai_tv failed; its own frame has
\* the Embedding and Similarity columns filled in and the caller's has neither.
C12_Witness ==
    /\ RkAiFailed
    /\ pc = "returned"
    /\ Len(df) > 0
    /\ Len(work) > 0
    /\ \A i \in 1..Len(work) : work[i].Embedding # NoEmbedding /\ work[i].Similarity # NoScore
    /\ df_columns = CatalogColumns

\* ------------------------------------------- claims: the command-line loop
\* What automatic_translator returns for a list of titles and a catalog with
\* rows: for each title, the first catalog title of the highest ratio.
CliReconciliation(titles, catalog) ==
    [i \in 1..Len(titles) |-> catalog[IdxMax(Ratios(titles[i], catalog))]]

\* The step that calls ai_recommendation.
CliRankIsCalled == rank_calls' # rank_calls

\* The step that ends a round at the count of the titles.
CliRoundWithTooFewTitles == rounds' # rounds /\ Len(tv_shows') < 2

\* The step in which the user answers the confirmation.
CliAnswerIsGiven == cli_pc = "reconcile" /\ cli_pc' \in {"prompt", "confirmed"}

\* The loop is at its prompt again and ai_recommendation has not been called.
CliRepromptsWithoutRanking == cli_pc' = "prompt" /\ pc' = "idle" /\ rank_calls' = 0

\* C13 as stated, with the answer as the user typed it: ai_recommendation is
\* called at most once, only after a round of at least 2 titles that the user
\* answered with 'y', and with the reconciliation of that round's titles; a
\* round with fewer than 2 titles or with an answer other than 'y' re-prompts
\* without ranking.
C13_RankOnlyAfterAnswerY ==
    [][/\ rank_calls' <= 1
       /\ CliRankIsCalled =>
             /\ Len(tv_shows) >= 2
             /\ answer = <<"y">>
             /\ tr_shows = PyList(tv_shows)
             /\ shows_list' = CliReconciliation(tv_shows, df)
       /\ CliRoundWithTooFewTitles => CliRepromptsWithoutRanking
       /\ (CliAnswerIsGiven /\ answer' # <<"y">>) => CliRepromptsWithoutRanking]_vars

\* C13, amended: the same, with the answer taken after .strip().lower(), so
\* that 'Y' and ' y ' confirm as 'y' does.
C13_RankOnlyAfterNormalisedAnswerY ==
    [][/\ rank_calls' <= 1
       /\ CliRankIsCalled =>
             /\ Len(tv_shows) >= 2
             /\ Lower(Strip(answer)) = <<"y">>
             /\ tr_shows = PyList(tv_shows)
             /\ shows_list' = CliReconciliation(tv_shows, df)
       /\ CliRoundWithTooFewTitles => CliRepromptsWithoutRanking
       /\ (CliAnswerIsGiven /\ Lower(Strip(answer')) # <<"y">>)
             => CliRepromptsWithoutRanking]_vars

\* ai_recommendation was called in the third round, after a round that
\* re-prompted for too few titles or for its answer, on the reconciliation of
\* the titles that the user confirmed with an answer other than a bare 'y'.
C13_Witness ==
    /\ rank_calls = 1
    /\ pc = "call"
    /\ rounds = 3
    /\ Len(tv_shows) >= 2
    /\ answer # <<"y">>
    /\ correction = <<"y">>
    /\ shows_list = CliReconciliation(tv_shows, df)
====
